---------------------------- MODULE Spec2Model ----------------------------
(***************************************************************************)
(* BibReaders: the description-based recommendation engine.                *)
(*                                                                         *)
(*   backend/scripts/train_reco.py   the Model Builder (offline process)   *)
(*   backend/app/services/reco.py    the lazily loaded artifact and the    *)
(*                                   similarity query                      *)
(*   backend/app/routes/livres.py    POST /api/recommander-par-description *)
(*   backend/app/routes/auth.py      register, login, get_current_user, me *)
(*   backend/scripts/scrap_books_toscrape.py   the page stream and the    *)
(*                                   upsert of the scraped books           *)
(*                                                                         *)
(* Texts are sequences of symbols.  SP is a whitespace character, DOT the  *)
(* full stop the builder puts between title and description, STOP a word   *)
(* the vectorizer drops (an English stop word), and every other symbol is  *)
(* one word that the vectorizer keeps as a term.                           *)
(***************************************************************************)
EXTENDS Integers, Sequences, FiniteSets

\* ------------------------------------------------------------------ bounds
MaxBooks == 2      \* rows of the livres table
MaxLen == 2        \* symbols in the text of a request
NReq == 2          \* requests in flight at the same time
MaxEmails == 2     \* email addresses that ask for an account
MaxPages == 3      \* catalogue pages of the scraped site
MaxRows == 2       \* rows given to one call of upsert_books

\* --------------------------------------------------------------- constants
DefaultTopK == 5   \* payload.get("top_k") or 5
IdfScale == 4      \* fixed-point scale of the idf weights
Tries == 3         \* _load_catalog_page(driver, page_url, tries=3)

SP == " "
DOT == "."
STOP == "t"
Terms == {"a", "b"}
QuerySyms == {SP} \cup Terms

\* ------------------------------------------------------------------- texts
RECURSIVE lstrip(_)
lstrip(s) == IF s # <<>> /\ Head(s) = SP THEN lstrip(Tail(s)) ELSE s

RECURSIVE rstrip(_)
rstrip(s) ==
    IF s # <<>> /\ s[Len(s)] = SP THEN rstrip(SubSeq(s, 1, Len(s) - 1)) ELSE s

\* Without the .strip()
stripNot(s) == s

\* str.strip()
strip(s) == rstrip(lstrip(s))

\* The analyzer of TfidfVectorizer(stop_words="english"): the words of a
\* text, stop words and separators dropped.
Tokens(s) == SelectSeq(s, LAMBDA c : c \in Terms)

\* Occurrences of term t in text s.
Count(s, t) == Len(SelectSeq(Tokens(s), LAMBDA c : c = t))

RECURSIVE SumOver(_, _)
SumOver(S, f) ==
    IF S = {} THEN 0
    ELSE LET x == CHOOSE y \in S : TRUE IN f[x] + SumOver(S \ {x}, f)

\* --------------------------------------------------------------- the artifact
\* train_reco._corpus: f"{t}. {d}".strip()
DocText(row) == strip(row.title \o <<DOT, SP>> \o row.description)

_corpus(rows) == [i \in 1..Len(rows) |-> DocText(rows[i])]

\* Vocabulary fitted over the corpus.
Vocabulary(docs) ==
    {t \in Terms : \E i \in 1..Len(docs) : Count(docs[i], t) > 0}

\* Document frequency of term t.
DocFreq(docs, t) == Cardinality({i \in 1..Len(docs) : Count(docs[i], t) > 0})

\* Smoothed idf, ln((1 + n) / (1 + df)) + 1, in fixed point: ln r is taken
\* as 2 (r - 1) / (r + 1), which gives (3n - df + 2) / (n + df + 2).
Idf(n, df) == (IdfScale * (3 * n - df + 2)) \div (n + df + 2)

\* One row of the tf-idf matrix (before the L2 normalisation, which the
\* cosine undoes).
TfidfRow(text, vocab, idf) == [t \in vocab |-> Count(text, t) * idf[t]]

NoArtifact ==
    [book_ids |-> <<>>, titles |-> <<>>, vocab |-> {}, idf |-> <<>>,
     matrix |-> <<>>]

\* As if the titles were gathered in another order than the identifiers.
PayloadUnaligned(rows) ==
    LET docs == _corpus(rows)
        vocab == Vocabulary(docs)
        idf == [t \in vocab |-> Idf(Len(docs), DocFreq(docs, t))]
    IN  [book_ids |-> [i \in 1..Len(rows) |-> rows[i].id],
         titles |-> [i \in 1..Len(rows) |-> rows[Len(rows) + 1 - i].title],
         vocab |-> vocab,
         idf |-> idf,
         matrix |-> [i \in 1..Len(rows) |-> TfidfRow(docs[i], vocab, idf)]]

\* train_reco.main lines 24-26: the payload that is pickled.
Payload(rows) ==
    LET docs == _corpus(rows)
        vocab == Vocabulary(docs)
        idf == [t \in vocab |-> Idf(Len(docs), DocFreq(docs, t))]
    IN  [book_ids |-> [i \in 1..Len(rows) |-> rows[i].id],
         titles |-> [i \in 1..Len(rows) |-> rows[i].title],
         vocab |-> vocab,
         idf |-> idf,
         matrix |-> [i \in 1..Len(rows) |-> TfidfRow(docs[i], vocab, idf)]]

\* fit_transform raises ValueError("empty vocabulary") when no document
\* holds a term.
FitFails(rows) == Vocabulary(_corpus(rows)) = {}


\* ------------------------------------------------------------ the similarity
Square(x) == x * x

RECURSIVE Gcd(_, _)
Gcd(a, b) == IF b = 0 THEN a ELSE Gcd(b, a % b)

\* A score is the squared cosine, a fraction in lowest terms: the cosine of
\* two non-negative vectors orders, ties and vanishes as its square does.
Zero == [num |-> 0, den |-> 1]

Fraction(n, d) == LET g == Gcd(n, d) IN [num |-> n \div g, den |-> d \div g]

ScoreLess(x, y) == x.num * y.den < y.num * x.den

\* As if a word outside the vocabulary were folded onto the fitted columns
\* (a hashing vectorizer) instead of dropped.
TransformFolded(text, art) ==
    [t \in art.vocab |-> Len(Tokens(text)) * art.idf[t]]

\* vec.transform([text]): the query's tf-idf weights over the fitted
\* vocabulary; a word outside it has no column.
Transform(text, art) == TfidfRow(text, art.vocab, art.idf)

Dot(u, v) == SumOver(DOMAIN u, [t \in DOMAIN u |-> u[t] * v[t]])

\* sklearn's cosine_similarity of one query row and one matrix row; a zero
\* row stays zero under the normalisation.
Cosine(q, x) ==
    IF Dot(q, q) = 0 \/ Dot(x, x) = 0 THEN Zero
    ELSE Fraction(Square(Dot(q, x)), Dot(q, q) * Dot(x, x))

\* reco.recommend_by_text line 17
Sims(text, art) ==
    LET q == Transform(text, art)
    IN  [i \in 1..Len(art.matrix) |-> Cosine(q, art.matrix[i])]

\* ndarray.argsort(): the indices in ascending order of score.  The default
\* kind is not stable: where two scores are equal the order is the one the
\* numpy build gives, here the order of rank.
argsort(sims, rank) ==
    LET n == Len(sims)
        Before(i, j) ==
            \/ ScoreLess(sims[i], sims[j])
            \/ sims[i] = sims[j] /\ rank[i] < rank[j]
    IN  CHOOSE p \in [1..n -> 1..n] :
            \A a, b \in 1..n : a < b => Before(p[a], p[b])

\* Without the [::-1]: the ascending order of argsort
ReverseNot(s) == s

\* [::-1]
Reverse(s) == [i \in 1..Len(s) |-> s[Len(s) + 1 - i]]

Min(a, b) == IF a <= b THEN a ELSE b
Max(a, b) == IF a >= b THEN a ELSE b

\* s[-k:] for k >= 1: the end of the sequence and not its beginning
SliceToLast(s, k) == SubSeq(s, Max(Len(s) - k, 0) + 1, Len(s))

\* s[:k]
SliceTo(s, k) ==
    IF k >= 0 THEN SubSeq(s, 1, Min(k, Len(s)))
    ELSE SubSeq(s, 1, Max(Len(s) + k, 0))

\* As if the documents of similarity zero were dropped before the cut.
TopIdxsPositive(text, top_k, art, rank) ==
    LET sims == Sims(text, art)
    IN  SliceTo(SelectSeq(Reverse(argsort(sims, rank)),
                          LAMBDA i : sims[i] # Zero), top_k)

\* reco.recommend_by_text line 18
TopIdxs(text, top_k, art, rank) ==
    SliceTo(Reverse(argsort(Sims(text, art), rank)), top_k)

\* As if the title were taken at the position in the result and not at the
\* index of the document.
ItemsByPosition(text, idxs, art) ==
    LET sims == Sims(text, art)
    IN  [p \in 1..Len(idxs) |->
            [book_id |-> art.book_ids[idxs[p]],
             title |-> art.titles[p],
             score |-> sims[idxs[p]]]]

\* reco.recommend_by_text line 19
Items(text, idxs, art) ==
    LET sims == Sims(text, art)
    IN  [p \in 1..Len(idxs) |->
            [book_id |-> art.book_ids[idxs[p]],
             title |-> art.titles[idxs[p]],
             score |-> sims[idxs[p]]]]

\* ------------------------------------------------------------------ state
VARIABLES
    catalog,    \* the rows of the livres table, in the order a select gives
    file,       \* the content of MODEL_PATH (reco_model.pkl)
    builder,    \* the train_reco process: where it is, and its payload
    model,      \* reco._model, the process-wide cache of the server
    req,        \* the requests of the server: position, payload, locals
    loop,       \* the request the event loop is running (0: none)
    rank,       \* the order argsort gives to equal scores in this build
    nLoads,     \* history: how often pickle.load has returned an artifact
    loadFailed, \* history: a load of this process has raised
    seen,       \* history: the list an earlier request got for a body
    adherents,  \* the rows of the adherents table, the id being the position
    areq,       \* the requests of the auth routes: position, inputs, locals
    scraper,    \* the generator scrape_all_books_stream and the site it reads
    upsert      \* the run of upsert_books: its arguments, session and count

vars ==
    <<catalog, file, builder, model, req, loop, rank, nLoads, loadFailed,
      seen, adherents, areq, scraper, upsert>>

Requests == 1..NReq

\* Livre.id of the i-th row: the primary key, not the position.
IdOf(i) == 10 + i

RowKinds ==
    {[title |-> <<"a">>, description |-> <<>>],
     [title |-> <<"b">>, description |-> <<"a">>],
     [title |-> <<STOP>>, description |-> <<>>]}

\* train_reco._fetch_books: (id, title or "", description or "")
Catalogs ==
    UNION {{[i \in 1..n |-> [id |-> IdOf(i), title |-> k[i].title,
                              author |-> "Unknown",
                              description |-> k[i].description, price |-> 0]] :
                k \in [1..n -> RowKinds]} : n \in 0..MaxBooks}

\* The catalogs a run of the builder gets through.
Fitted == {c \in Catalogs : c # <<>> /\ ~FitFails(c)}

Absent == [kind |-> "absent", art |-> NoArtifact]
Corrupt == [kind |-> "corrupt", art |-> NoArtifact]
Pickled(art) == [kind |-> "ok", art |-> art]
None == [kind |-> "none", art |-> NoArtifact]

\* What MODEL_PATH may hold when the server starts: nothing, bytes that do
\* not unpickle, or the artifact an earlier build made of the first books.
StartFiles(rows) ==
    {Absent, Corrupt} \cup
    {Pickled(Payload(SubSeq(rows, 1, n))) :
        n \in {m \in 1..Len(rows) : ~FitFails(SubSeq(rows, 1, m))}}

TieOrders(n) ==
    {f \in [1..n -> 1..n] : \A i, j \in 1..n : f[i] = f[j] => i = j}

\* The body of a request: "text" and "top_k" as the JSON gives them.
Texts ==
    {[kind |-> "absent", val |-> <<>>]} \cup
    {[kind |-> "str", val |-> t] :
        t \in UNION {[1..n -> QuerySyms] : n \in 0..MaxLen}}

TopKs ==
    {[kind |-> "absent", val |-> 0], [kind |-> "text", val |-> 0]} \cup
    {[kind |-> "int", val |-> k] : k \in (0 - MaxBooks)..MaxBooks}

Payloads == {[text |-> t, top_k |-> k] : t \in Texts, k \in TopKs}

\* The bodies the requests of the whole system send: a text of at most one
\* symbol (none, empty, whitespace, a word) and no top_k.
ShortPayloads ==
    {p \in Payloads : Len(p.text.val) <= 1 /\ p.top_k.kind = "absent"}

NoPayload ==
    [text |-> [kind |-> "absent", val |-> <<>>],
     top_k |-> [kind |-> "absent", val |-> 0]]

IdleReq ==
    [pc |-> "idle", payload |-> NoPayload, reused |-> FALSE, idxs |-> <<>>,
     status |-> "none", exc |-> "none", items |-> <<>>]

\* The builder at rest; out is how its last run ended: "none" (it has not
\* run), "no_books" (line 23), "ValueError" (line 25), "saved" (line 29) or
\* "killed" (the process died before line 29).
Stopped(out) == [pc |-> "idle", payload |-> NoArtifact, out |-> out]

IdleBuilder == Stopped("none")

\* The bodies that are asked again and again: a text of one symbol (a word
\* or a blank) with top_k absent or 1.
RepeatPayloads ==
    {p \in Payloads : /\ Len(p.text.val) = 1
                      /\ \/ p.top_k.kind = "absent"
                         \/ p.top_k.kind = "int" /\ p.top_k.val = 1}

NotSeen == [seen |-> FALSE, payload |-> NoPayload, items |-> <<>>]

\* ---- the scraper: its data
\* The generator before its first next(): no driver, no page.
IdleScraper ==
    [pc |-> "idle", site |-> 0, max_pages |-> 0, page_idx |-> 0,
     attempt |-> 0, yielded |-> <<>>, why |-> "none"]

\* upsert_books not called.
IdleUpsert ==
    [pc |-> "idle", clean_rows |-> <<>>, update_existing |-> FALSE,
     before |-> <<>>, books |-> <<>>, fetched |-> 0, i |-> 0, changed |-> 0]

\* A book as the scraper cleans it (clean_row): the author is "Unknown", the
\* description is stripped, and price stands for the columns that an update
\* writes besides the description (price, stock, rating, image_url).
CleanRows ==
    {[title |-> <<t>>, author |-> "Unknown", description |-> d, price |-> 1] :
        t \in Terms, d \in {<<>>, <<"b">>}}

CleanLists == UNION {[1..n -> CleanRows] : n \in 0..MaxRows}

\* The livres table before a run of the scraper: books of any author, with
\* or without a description, two books of one title and author included.
UpsertTables ==
    UNION {{[i \in 1..n |-> [id |-> IdOf(i), title |-> <<k[i][1]>>,
                              author |-> k[i][2], description |-> k[i][3],
                              price |-> 0]] :
                k \in [1..n -> Terms \X {"Unknown", "Ann"} \X {<<>>, <<"a">>}]} :
           n \in 0..MaxBooks}

\* ---- the auth routes: their data
Mailboxes == <<"u@bib", "v@bib", "w@bib", "x@bib">>

Emails == {Mailboxes[i] : i \in 1..MaxEmails}
Passwords == {"secret1", "secret2"}

\* security.hash_password and verify_password: a hash verifies the password
\* it was made of and no other.
hash_password(password) == [bcrypt |-> password]

verify_password(plain, hashed) == hashed = hash_password(plain)

\* A row of the adherents table as register makes it: is_active takes its
\* default.
Adherent(email, password) ==
    [email |-> email, password_hash |-> hash_password(password),
     is_active |-> TRUE]

\* The table when the server starts: empty, or one adherent, whom an
\* administrator may have deactivated.
StartAdherents ==
    {<<>>} \cup
    {<<[Adherent(m, w) EXCEPT !.is_active = a]>> :
        m \in Emails, w \in Passwords, a \in BOOLEAN}

\* The "sub" of a token: absent, the empty string, a string that is no
\* number, or the decimal string of the number val.
Subs ==
    {[kind |-> k, val |-> 0] : k \in {"absent", "empty", "word"}} \cup
    {[kind |-> "num", val |-> n] : n \in 0..(MaxEmails + 1)}

\* A bearer token: sig is "ok" when jwt.decode accepts the signature and the
\* expiry, "bad" when the signature fails, "expired" when exp has passed.
BearerTokens ==
    {[sig |-> g, sub |-> b] : g \in {"ok", "bad", "expired"}, b \in Subs}

NoToken == [sig |-> "none", sub |-> [kind |-> "absent", val |-> 0]]

\* security.create_access_token(subject=str(id), ...)
create_access_token(id) == [sig |-> "ok", sub |-> [kind |-> "num", val |-> id]]

IdleAuth ==
    [op |-> "none", pc |-> "idle", email |-> "", password |-> "",
     token |-> NoToken, before |-> <<>>, status |-> 0, detail |-> "",
     user |-> 0]

Init ==
    /\ catalog \in Catalogs
    /\ file \in StartFiles(catalog)
    /\ builder = IdleBuilder
    /\ model = None
    /\ req = [r \in Requests |-> IdleReq]
    /\ loop = 0
    /\ rank \in TieOrders(MaxBooks)
    /\ nLoads = 0
    /\ loadFailed = FALSE
    /\ seen = NotSeen
    /\ adherents = <<>>
    /\ areq = [r \in Requests |-> IdleAuth]
    /\ scraper = IdleScraper
    /\ upsert = IdleUpsert

\* -------------------------------------------------- the recommend endpoint
\* livres.recommend line 129: (payload.get("text") or "").strip()
TextOf(payload) == strip(payload.text.val)

\* livres.recommend line 130: int(payload.get("top_k") or 5); a string that
\* is no number raises ValueError.
TopKRaises(payload) == payload.top_k.kind = "text"

TopKOf(payload) ==
    IF payload.top_k.kind = "int" /\ payload.top_k.val # 0
    THEN payload.top_k.val
    ELSE DefaultTopK

Raised(q, e) == [q EXCEPT !.pc = "done", !.status = "raised", !.exc = e]

Returned(q, idxs, items) ==
    [q EXCEPT !.pc = "done", !.status = "ok", !.idxs = idxs, !.items = items]

\* As if the handler were a plain def, which FastAPI runs in a thread pool:
\* a request starts whatever the others are doing.
LoopFreeThreaded == TRUE

\* The handler is a coroutine (async def) without an await: the event loop
\* runs one at a time, each to its end.
LoopFree == loop = 0

\* A request reaches the server.
Arrive(r) ==
    /\ req[r].pc = "idle"
    /\ req' = [req EXCEPT ![r].pc = "pending"]
    /\ UNCHANGED <<scraper, upsert, seen, adherents, areq,
                   catalog, file, builder, model, loop, rank, nLoads, loadFailed>>

\* livres.recommend lines 129-132, the body of the request being one of P
Enter(r, P) ==
    /\ req[r].pc = "pending"
    /\ LoopFree
    /\ \E payload \in P :
        LET q == [req[r] EXCEPT !.payload = payload]
        IN  req' = [req EXCEPT ![r] =
                IF TopKRaises(payload) THEN Raised(q, "ValueError")
                ELSE IF TextOf(payload) = <<>> THEN Returned(q, <<>>, <<>>)
                ELSE [q EXCEPT !.pc = "load"]]
    /\ loop' = r
    /\ UNCHANGED <<scraper, upsert, seen, adherents, areq,
                   catalog, file, builder, model, rank, nLoads, loadFailed>>

\* reco._load line 10, loading whatever the cache holds
NeedsLoadAlways == TRUE

\* reco._load line 10, loading again when the file has changed
NeedsLoadStale == model = None \/ (file.kind = "ok" /\ file # model)

\* reco._load line 10: if _model is None
NeedsLoad == model = None

\* reco._load line 10
LoadCheck(r) ==
    /\ req[r].pc = "load"
    /\ req' = [req EXCEPT ![r].pc = IF NeedsLoad THEN "open" ELSE "compute",
                           ![r].reused = ~NeedsLoad]
    /\ UNCHANGED <<scraper, upsert, seen, adherents, areq,
                   catalog, file, builder, model, loop, rank, nLoads, loadFailed>>

\* reco._load line 11: open(MODEL_PATH, "rb")
LoadOpen(r) ==
    /\ req[r].pc = "open"
    /\ IF file.kind = "absent"
       THEN /\ req' = [req EXCEPT ![r] = Raised(@, "FileNotFoundError")]
            /\ loadFailed' = TRUE
       ELSE /\ req' = [req EXCEPT ![r].pc = "unpickle"]
            /\ UNCHANGED loadFailed
    /\ UNCHANGED <<scraper, upsert, seen, adherents, areq,
                   catalog, file, builder, model, loop, rank, nLoads>>

\* reco._load line 11: _model = pickle.load(f)
LoadUnpickle(r) ==
    /\ req[r].pc = "unpickle"
    /\ IF file.kind = "ok"
       THEN /\ model' = file
            /\ nLoads' = nLoads + 1
            /\ req' = [req EXCEPT ![r].pc = "compute"]
            /\ UNCHANGED loadFailed
       ELSE /\ req' = [req EXCEPT ![r] = Raised(@, "UnpicklingError")]
            /\ loadFailed' = TRUE
            /\ UNCHANGED <<model, nLoads>>
    /\ UNCHANGED <<scraper, upsert, seen, adherents, areq,
                   catalog, file, builder, loop, rank>>

\* reco.recommend_by_text lines 15-19
recommend_by_text(text, top_k, art) ==
    LET idxs == TopIdxs(text, top_k, art, rank)
    IN  [idxs |-> idxs, items |-> Items(text, idxs, art)]

\* reco._load line 12 and reco.recommend_by_text lines 15-19
Compute(r) ==
    /\ req[r].pc = "compute"
    /\ LET out == recommend_by_text(TextOf(req[r].payload),
                                    TopKOf(req[r].payload), model.art)
       IN  req' = [req EXCEPT ![r] = Returned(@, out.idxs, out.items)]
    /\ UNCHANGED <<scraper, upsert, seen, adherents, areq,
                   catalog, file, builder, model, loop, rank, nLoads, loadFailed>>

\* The response (the list, or the 500 of an exception) goes out and the event
\* loop takes the next request.
Respond(r) ==
    /\ req[r].pc = "done"
    /\ req' = [req EXCEPT ![r] = IdleReq]
    /\ loop' = IF loop = r THEN 0 ELSE loop
    /\ UNCHANGED <<scraper, upsert, seen, adherents, areq,
                   catalog, file, builder, model, rank, nLoads, loadFailed>>

\* --------------------------------------------------------- the Model Builder
\* train_reco.main lines 22-26: with no rows the run prints and returns, with
\* an empty vocabulary it ends in the ValueError, and else it holds the
\* payload.
NoRowsNever(rows) == FALSE

\* train_reco.main line 23: if not rows
NoRows(rows) == rows = <<>>

BuildFit ==
    /\ builder.pc = "idle"
    /\ builder' = IF NoRows(catalog) THEN Stopped("no_books")
                  ELSE IF FitFails(catalog) THEN Stopped("ValueError")
                  ELSE [pc |-> "fitted", payload |-> Payload(catalog),
                        out |-> "none"]
    /\ UNCHANGED <<scraper, upsert, seen, adherents, areq,
                   catalog, file, model, req, loop, rank, nLoads, loadFailed>>

\* train_reco.main line 28: open(MODEL_PATH, "wb") empties the file
BuildOpen ==
    /\ builder.pc = "fitted"
    /\ builder' = [builder EXCEPT !.pc = "writing"]
    /\ file' = Corrupt
    /\ UNCHANGED <<scraper, upsert, seen, adherents, areq,
                   catalog, model, req, loop, rank, nLoads, loadFailed>>

\* train_reco.main line 28: pickle.dump(payload, f), and the file is closed
BuildDump ==
    /\ builder.pc = "writing"
    /\ builder' = Stopped("saved")
    /\ file' = Pickled(builder.payload)
    /\ UNCHANGED <<scraper, upsert, seen, adherents, areq,
                   catalog, model, req, loop, rank, nLoads, loadFailed>>

\* The builder process dies (a kill, a full disk, a power cut) before it has
\* closed the file: MODEL_PATH stays as the run has left it.
BuildCrash ==
    /\ builder.pc \in {"fitted", "writing"}
    /\ builder' = Stopped("killed")
    /\ UNCHANGED <<scraper, upsert, seen, adherents, areq,
                   catalog, file, model, req, loop, rank, nLoads, loadFailed>>

\* The server with its requests in flight and the builder beside it.
Next ==
    \/ \E r \in Requests :
        \/ Arrive(r)
        \/ Enter(r, ShortPayloads)
        \/ LoadCheck(r)
        \/ LoadOpen(r)
        \/ LoadUnpickle(r)
        \/ Compute(r)
        \/ Respond(r)
    \/ BuildFit
    \/ BuildOpen
    \/ BuildDump

Spec == Init /\ [][Next]_vars

\* The same, with a builder that may die in the middle of a run.
NextCrash ==
    \/ \E r \in Requests :
        \/ Arrive(r)
        \/ Enter(r, ShortPayloads)
        \/ LoadCheck(r)
        \/ LoadOpen(r)
        \/ LoadUnpickle(r)
        \/ Compute(r)
        \/ Respond(r)
    \/ BuildFit
    \/ BuildOpen
    \/ BuildDump
    \/ BuildCrash

SpecCrash == Init /\ [][NextCrash]_vars

\* The query alone: one request after the other, of every body, against
\* every file the server may start with.
NextQuery ==
    \/ Arrive(1)
    \/ Enter(1, Payloads)
    \/ LoadCheck(1)
    \/ LoadOpen(1)
    \/ LoadUnpickle(1)
    \/ Compute(1)
    \/ Respond(1)

SpecQuery == Init /\ [][NextQuery]_vars

\* The bodies that ask for a book of the catalog by the very text the builder
\* indexes for it, with top_k absent or 1 and more.
SelfPayloads(rows) ==
    {[text |-> [kind |-> "str", val |-> DocText(rows[i])], top_k |-> k] :
        i \in 1..Len(rows),
        k \in {t \in TopKs : t.kind = "absent" \/ (t.kind = "int" /\ t.val >= 1)}}

\* One request after the other, each with the indexed text of a book.
NextSelf ==
    \/ Arrive(1)
    \/ Enter(1, SelfPayloads(catalog))
    \/ LoadCheck(1)
    \/ LoadOpen(1)
    \/ LoadUnpickle(1)
    \/ Compute(1)
    \/ Respond(1)

SpecSelf == Init /\ [][NextSelf]_vars

\* Respond, the body and the list of one answer being remembered (or not)
\* as long as none is.
RespondNoting(r) ==
    /\ req[r].pc = "done"
    /\ req' = [req EXCEPT ![r] = IdleReq]
    /\ loop' = IF loop = r THEN 0 ELSE loop
    /\ \E note \in BOOLEAN :
        seen' = IF note /\ ~seen.seen /\ req[r].status = "ok"
                THEN [seen |-> TRUE, payload |-> req[r].payload,
                      items |-> req[r].items]
                ELSE seen
    /\ UNCHANGED <<scraper, upsert, adherents, areq,
                   catalog, file, builder, model, rank, nLoads, loadFailed>>

\* The same bodies asked again and again, other bodies between them, while
\* the builder rewrites the file.
NextRepeat ==
    \/ Arrive(1)
    \/ Enter(1, RepeatPayloads)
    \/ LoadCheck(1)
    \/ LoadOpen(1)
    \/ LoadUnpickle(1)
    \/ Compute(1)
    \/ RespondNoting(1)
    \/ BuildFit
    \/ BuildOpen
    \/ BuildDump

SpecRepeat == Init /\ [][NextRepeat]_vars

\* ----------------------------------------------------------- the auth routes
recoVars ==
    <<catalog, file, builder, model, req, loop, rank, nLoads, loadFailed, seen>>

scrapVars == <<scraper, upsert>>

\* select(Adherent).where(Adherent.email == email): the id of the row, or 0.
ByEmail(email) ==
    IF \E i \in 1..Len(adherents) : adherents[i].email = email
    THEN CHOOSE i \in 1..Len(adherents) : adherents[i].email = email
    ELSE 0

\* As if register made no test of the email.
EmailUsedNever(email) == FALSE

\* auth.register lines 25-26: exists.scalar_one_or_none()
EmailUsed(email) == ByEmail(email) # 0

\* The response of an auth route: the status code and the detail (or the
\* exception that left the handler, with status 500).
Answer(q, status, detail, user) ==
    [q EXCEPT !.pc = "done", !.status = status, !.detail = detail,
              !.user = user]

\* POST /api/auth/register reaches the handler, which sends its select
\* (line 25) and awaits.
RegisterArrive(r) ==
    /\ areq[r].pc = "idle"
    /\ \E m \in Emails, w \in Passwords :
        areq' = [areq EXCEPT ![r] =
                    [IdleAuth EXCEPT !.op = "register", !.pc = "select",
                                     !.email = m, !.password = w,
                                     !.before = adherents]]
    /\ UNCHANGED <<adherents, recoVars, scrapVars>>

\* auth.register lines 25-35: the select answers; a row gives the 400, none
\* lets the handler add the adherent and send the commit.
RegisterSelect(r) ==
    /\ areq[r].op = "register"
    /\ areq[r].pc = "select"
    /\ areq' = [areq EXCEPT ![r] =
                    IF EmailUsed(@.email)
                    THEN Answer(@, 400, "Email déjà utilisé", 0)
                    ELSE [@ EXCEPT !.pc = "commit"]]
    /\ UNCHANGED <<adherents, recoVars, scrapVars>>

\* auth.register line 35: the INSERT of the commit; the unique index on
\* adherents.email refuses a second row of the same email (IntegrityError).
RegisterCommit(r) ==
    /\ areq[r].op = "register"
    /\ areq[r].pc = "commit"
    /\ IF ByEmail(areq[r].email) # 0
       THEN /\ areq' = [areq EXCEPT ![r] = Answer(@, 500, "IntegrityError", 0)]
            /\ UNCHANGED adherents
       ELSE /\ adherents' =
                    Append(adherents, Adherent(areq[r].email, areq[r].password))
            /\ areq' = [areq EXCEPT ![r].pc = "refresh",
                                     ![r].user = Len(adherents) + 1]
    /\ UNCHANGED <<recoVars, scrapVars>>

\* auth.register lines 36-37: the refresh and the 201 with the new id
RegisterRefresh(r) ==
    /\ areq[r].op = "register"
    /\ areq[r].pc = "refresh"
    /\ areq' = [areq EXCEPT ![r] = Answer(@, 201, "", @.user)]
    /\ UNCHANGED <<adherents, recoVars, scrapVars>>

\* POST /api/auth/login reaches the handler, which sends its select (line 43)
LoginArrive(r) ==
    /\ areq[r].pc = "idle"
    /\ \E m \in Emails, w \in Passwords :
        areq' = [areq EXCEPT ![r] =
                    [IdleAuth EXCEPT !.op = "login", !.pc = "select",
                                     !.email = m, !.password = w]]
    /\ UNCHANGED <<adherents, recoVars, scrapVars>>

\* auth.login lines 43-52
LoginSelect(r) ==
    /\ areq[r].op = "login"
    /\ areq[r].pc = "select"
    /\ LET id == ByEmail(areq[r].email)
       IN  areq' = [areq EXCEPT ![r] =
                IF \/ id = 0
                   \/ ~verify_password(@.password, adherents[id].password_hash)
                THEN Answer(@, 401, "Identifiants invalides", 0)
                ELSE [Answer(@, 200, "", id) EXCEPT
                         !.token = create_access_token(id)]]
    /\ UNCHANGED <<adherents, recoVars, scrapVars>>

\* auth.get_current_user lines 65-71: jwt.decode raises a JWTError for a bad
\* signature and for an expired token, and a "sub" that is missing or empty
\* is refused.
Refused(token) == token.sig # "ok" \/ token.sub.kind \in {"absent", "empty"}

\* GET /api/auth/me with a bearer token: get_current_user lines 60-73, up to
\* the await of its select.  int(sub) is evaluated on line 73, outside the
\* try, and raises ValueError for a string that is no number.
MeArrive(r) ==
    /\ areq[r].pc = "idle"
    /\ \E token \in BearerTokens :
        LET q == [IdleAuth EXCEPT !.op = "me", !.token = token]
        IN  areq' = [areq EXCEPT ![r] =
                IF Refused(token) THEN Answer(q, 401, "Token invalide", 0)
                ELSE IF token.sub.kind = "word"
                     THEN Answer(q, 500, "ValueError", 0)
                ELSE [q EXCEPT !.pc = "select"]]
    /\ UNCHANGED <<adherents, recoVars, scrapVars>>

\* auth.get_current_user lines 73-77 and auth.me lines 81-83
MeSelect(r) ==
    /\ areq[r].op = "me"
    /\ areq[r].pc = "select"
    /\ LET id == areq[r].token.sub.val
       IN  areq' = [areq EXCEPT ![r] =
                IF id \notin 1..Len(adherents) \/ ~adherents[id].is_active
                THEN Answer(@, 401, "Token invalide", 0)
                ELSE Answer(@, 200, "", id)]
    /\ UNCHANGED <<adherents, recoVars, scrapVars>>

\* The response of an auth route goes out.
AuthRespond(r) ==
    /\ areq[r].pc = "done"
    /\ areq' = [areq EXCEPT ![r] = IdleAuth]
    /\ UNCHANGED <<adherents, recoVars, scrapVars>>

\* The auth routes with no recommender beside them, one request after the
\* other.
InitAuth ==
    /\ catalog = <<>>
    /\ file = Absent
    /\ builder = IdleBuilder
    /\ model = None
    /\ req = [r \in Requests |-> IdleReq]
    /\ loop = 0
    /\ rank = [i \in 1..MaxBooks |-> i]
    /\ nLoads = 0
    /\ loadFailed = FALSE
    /\ seen = NotSeen
    /\ adherents \in StartAdherents
    /\ areq = [r \in Requests |-> IdleAuth]
    /\ scraper = IdleScraper
    /\ upsert = IdleUpsert

NextAuth ==
    \/ RegisterArrive(1)
    \/ RegisterSelect(1)
    \/ RegisterCommit(1)
    \/ RegisterRefresh(1)
    \/ LoginArrive(1)
    \/ LoginSelect(1)
    \/ MeArrive(1)
    \/ MeSelect(1)
    \/ AuthRespond(1)

SpecAuth == InitAuth /\ [][NextAuth]_vars

\* Register requests in flight together: register awaits its select, its
\* commit and its refresh, and the event loop runs another request meanwhile.
NextRegister ==
    \E r \in Requests :
        \/ RegisterArrive(r)
        \/ RegisterSelect(r)
        \/ RegisterCommit(r)
        \/ RegisterRefresh(r)
        \/ AuthRespond(r)

SpecRegister == InitAuth /\ [][NextRegister]_vars

\* ---------------------------------------------------------------- the scraper
\* scrape_all_books_stream lines 346-350: the driver is built and the first
\* catalogue page is to be loaded; the site has `site` pages and the caller
\* asks for max_pages (0: all).
StreamStart ==
    /\ scraper.pc = "idle"
    /\ \E site \in 1..MaxPages, max_pages \in 0..MaxPages :
        scraper' = [IdleScraper EXCEPT !.pc = "load", !.site = site,
                                       !.max_pages = max_pages,
                                       !.page_idx = 1, !.attempt = 1]
    /\ UNCHANGED <<upsert, adherents, areq, recoVars>>

\* _load_catalog_page lines 314-328, one turn of its loop: the page comes
\* (return True) or the wait times out, and after the last try the function
\* returns False and the generator breaks (lines 361-363).
LoadTry ==
    /\ scraper.pc = "load"
    /\ \E ok \in BOOLEAN :
        scraper' =
            IF ok THEN [scraper EXCEPT !.pc = "loaded"]
            ELSE IF scraper.attempt < Tries
                 THEN [scraper EXCEPT !.attempt = @ + 1]
            ELSE [scraper EXCEPT !.pc = "stopped", !.why = "load_failed"]
    /\ UNCHANGED <<upsert, adherents, areq, recoVars>>

\* scrape_all_books_stream lines 366-458: the cards are read and the page is
\* yielded with its index.
YieldPage ==
    /\ scraper.pc = "loaded"
    /\ scraper' = [scraper EXCEPT !.pc = "yielded",
                                  !.yielded = Append(@, scraper.page_idx)]
    /\ UNCHANGED <<upsert, adherents, areq, recoVars>>

\* As if the limit were tested with > and not >=.
ReachedMaxLate(max_pages, page_idx) == max_pages # 0 /\ page_idx > max_pages

\* scrape_all_books_stream line 460: if max_pages and page_idx >= max_pages
ReachedMax(max_pages, page_idx) == max_pages # 0 /\ page_idx >= max_pages

\* scrape_all_books_stream lines 460-475, when the caller asks for the next
\* page: the limit, then the next link (every page but the last has one).
Resume ==
    /\ scraper.pc = "yielded"
    /\ scraper' =
            IF ReachedMax(scraper.max_pages, scraper.page_idx)
            THEN [scraper EXCEPT !.pc = "stopped", !.why = "max_pages"]
            ELSE IF scraper.page_idx < scraper.site
                 THEN [scraper EXCEPT !.pc = "load", !.page_idx = @ + 1,
                                      !.attempt = 1]
            ELSE [scraper EXCEPT !.pc = "stopped", !.why = "no_next"]
    /\ UNCHANGED <<upsert, adherents, areq, recoVars>>

\* upsert_books lines 573-586: the call and the session
UpsertStart ==
    /\ upsert.pc = "idle"
    /\ \E rows \in CleanLists, update_existing \in BOOLEAN :
        upsert' = [IdleUpsert EXCEPT !.pc = "fetch", !.clean_rows = rows,
                                     !.update_existing = update_existing]
    /\ UNCHANGED <<scraper, adherents, areq, recoVars>>

\* upsert_books line 587 and _fetch_existing_map: the books of the table are
\* loaded into the session, and index maps (title, author) to a book among
\* them.
UpsertFetch ==
    /\ upsert.pc = "fetch"
    /\ upsert' = [upsert EXCEPT !.pc = "rows", !.before = catalog,
                                !.books = catalog, !.fetched = Len(catalog),
                                !.i = 1]
    /\ UNCHANGED <<scraper, adherents, areq, recoVars>>

SameKey(a, b) == a.title = b.title /\ a.author = b.author

\* index[key] of _fetch_existing_map line 570: the dict is filled once, from
\* the fetched books (of two books of one key the later stays), and 0 stands
\* for a key that is not in it.
InIndex(books, fetched, r) ==
    LET ps == {p \in 1..fetched : SameKey(books[p], r)}
    IN  IF ps = {} THEN 0 ELSE CHOOSE p \in ps : \A q \in ps : q <= p

\* upsert_books lines 593-597
ShouldUpdate(update_existing, r, book) ==
    \/ update_existing
    \/ strip(r.description) # <<>> /\ strip(book.description) = <<>>

\* upsert_books lines 599-603
Updated(book, r) ==
    [book EXCEPT !.description = r.description, !.price = r.price]

\* upsert_books lines 606-616: Livre(title=..., ...), with the id the table
\* gives it
NewLivre(r, n) ==
    [id |-> IdOf(n), title |-> r.title, author |-> r.author,
     description |-> r.description, price |-> r.price]

\* upsert_books lines 589-617, one turn of the loop
UpsertRow ==
    /\ upsert.pc = "rows"
    /\ upsert.i <= Len(upsert.clean_rows)
    /\ LET r == upsert.clean_rows[upsert.i]
           books == upsert.books
           p == InIndex(books, upsert.fetched, r)
       IN  upsert' =
            IF p # 0
            THEN IF ShouldUpdate(upsert.update_existing, r, books[p])
                 THEN [upsert EXCEPT !.books[p] = Updated(books[p], r),
                                     !.changed = @ + 1, !.i = @ + 1]
                 ELSE [upsert EXCEPT !.i = @ + 1]
            ELSE [upsert EXCEPT
                     !.books = Append(books, NewLivre(r, Len(books) + 1)),
                     !.changed = @ + 1, !.i = @ + 1]
    /\ UNCHANGED <<scraper, adherents, areq, recoVars>>

\* upsert_books lines 619-621: the commit writes the session to the table and
\* the count is returned.
UpsertCommit ==
    /\ upsert.pc = "rows"
    /\ upsert.i > Len(upsert.clean_rows)
    /\ catalog' = upsert.books
    /\ upsert' = [upsert EXCEPT !.pc = "done"]
    /\ UNCHANGED <<scraper, adherents, areq, file, builder, model, req, loop,
                   rank, nLoads, loadFailed, seen>>

NextUpsert ==
    \/ UpsertStart
    \/ UpsertFetch
    \/ UpsertRow
    \/ UpsertCommit

\* upsert_books over any table of livres.
InitUpsert ==
    /\ catalog \in UpsertTables
    /\ file = Absent
    /\ builder = IdleBuilder
    /\ model = None
    /\ req = [r \in Requests |-> IdleReq]
    /\ loop = 0
    /\ rank = [i \in 1..MaxBooks |-> i]
    /\ nLoads = 0
    /\ loadFailed = FALSE
    /\ seen = NotSeen
    /\ adherents = <<>>
    /\ areq = [r \in Requests |-> IdleAuth]
    /\ scraper = IdleScraper
    /\ upsert = IdleUpsert

SpecUpsert == InitUpsert /\ [][NextUpsert]_vars

NextStream ==
    \/ StreamStart
    \/ LoadTry
    \/ YieldPage
    \/ Resume

\* The scraper script alone: no server beside it.
InitStream ==
    /\ catalog = <<>>
    /\ file = Absent
    /\ builder = IdleBuilder
    /\ model = None
    /\ req = [r \in Requests |-> IdleReq]
    /\ loop = 0
    /\ rank = [i \in 1..MaxBooks |-> i]
    /\ nLoads = 0
    /\ loadFailed = FALSE
    /\ seen = NotSeen
    /\ adherents = <<>>
    /\ areq = [r \in Requests |-> IdleAuth]
    /\ scraper = IdleScraper
    /\ upsert = IdleUpsert

SpecStream == InitStream /\ [][NextStream]_vars

\* The builder alone, run after run, over whatever MODEL_PATH holds: nothing,
\* bytes that do not unpickle, or the artifact of an earlier catalog.
PriorFiles == {Absent, Corrupt} \cup {Pickled(Payload(c)) : c \in Fitted}

InitBuild ==
    /\ catalog \in Catalogs
    /\ file \in PriorFiles
    /\ builder = IdleBuilder
    /\ model = None
    /\ req = [r \in Requests |-> IdleReq]
    /\ loop = 0
    /\ rank = [i \in 1..MaxBooks |-> i]
    /\ nLoads = 0
    /\ loadFailed = FALSE
    /\ seen = NotSeen
    /\ adherents = <<>>
    /\ areq = [r \in Requests |-> IdleAuth]
    /\ scraper = IdleScraper
    /\ upsert = IdleUpsert

NextBuild ==
    \/ BuildFit
    \/ BuildOpen
    \/ BuildDump
    \/ BuildCrash

SpecBuild == InitBuild /\ [][NextBuild]_vars

\* ----------------------------------------------------------------- claims
Done(r) == req[r].pc = "done"

Ok(r) == Done(r) /\ req[r].status = "ok"

\* The request went through recommend_by_text and got its list.
Answered(r) == Ok(r) /\ TextOf(req[r].payload) # <<>>

\* A text that is empty or all whitespace.
Blank(t) == \A i \in 1..Len(t) : t[i] = SP

InLoad(r) == req[r].pc \in {"open", "unpickle"}

WellFormed(art) ==
    /\ Len(art.book_ids) > 0
    /\ Len(art.book_ids) = Len(art.titles)
    /\ Len(art.titles) = Len(art.matrix)
    /\ art.vocab # {}

\* The artifact lifecycle of the server, as the specification names it.
Lifecycle ==
    IF model # None THEN "LOADED"
    ELSE IF \E r \in Requests : InLoad(r) THEN "LOADING"
    ELSE IF loadFailed THEN "LOAD_FAILED"
    ELSE "UNLOADED"

\* C1: in one server process pickle.load gives an artifact at most once, and
\* once the cache is filled no request opens or reads the file again: every
\* later request takes the cached value.
C1_LoadedAtMostOnce ==
    [][/\ nLoads' <= 1
       /\ model # None => \A r \in Requests : ~InLoad(r)']_vars

\* C1 witness: a request was answered from the cache that an earlier request
\* filled.
C1_Witness ==
    \E r \in Requests :
        Answered(r) /\ req[r].reused /\ nLoads = 1 /\ req[r].items # <<>>

\* C2: with several first requests in flight while the cache is empty, at
\* most one request is inside the load at a time, the artifact is loaded at
\* most once, and a request that computes reads a complete artifact.
C2_SingleInitialization ==
    /\ Cardinality({r \in Requests : InLoad(r)}) <= 1
    /\ nLoads <= 1
    /\ \A r \in Requests :
        req[r].pc = "compute" => model # None /\ WellFormed(model.art)
    /\ (\E r \in Requests : Answered(r)) => nLoads = 1

\* C2 witness: one request is unpickling into the empty cache while another
\* first request waits.
C2_Witness ==
    \E r1, r2 \in Requests :
        /\ r1 # r2
        /\ req[r1].pc = "unpickle"
        /\ req[r2].pc = "pending"
        /\ model = None
        /\ file.kind = "ok"

\* C3: a request whose load meets an absent or corrupt file does not end in
\* the exception of the load.
C3_LoadFailureRecovered ==
    \A r \in Requests :
        Done(r) => req[r].exc \notin {"FileNotFoundError", "UnpicklingError"}

\* C4: a request with an integer top_k <= 0 that is answered is answered
\* with the empty list.
C4_NonPositiveTopKEmpty ==
    \A r \in Requests :
        (/\ Ok(r)
         /\ req[r].payload.top_k.kind = "int"
         /\ req[r].payload.top_k.val <= 0) => req[r].items = <<>>

\* C5: recommend_by_text(text, k) over a corpus of n documents returns at
\* most min(k, n) items (no items when that is negative).
C5_AtMostMinKN ==
    \A r \in Requests :
        Answered(r) =>
            Len(req[r].items) <=
                Max(0, Min(TopKOf(req[r].payload), Len(model.art.matrix)))

\* C6: two returned documents of equal score come in corpus order, the lower
\* index first.
C6_TiesInCorpusOrder ==
    \A r \in Requests :
        Answered(r) =>
            \A p, q \in 1..Len(req[r].items) :
                (p < q /\ req[r].items[p].score = req[r].items[q].score)
                    => req[r].idxs[p] < req[r].idxs[q]

\* C7: the returned items are in non-increasing order of score, and no
\* document left out has a higher score than a returned one.
C7_TopKPrefix ==
    \A r \in Requests :
        Answered(r) =>
            LET sims == Sims(TextOf(req[r].payload), model.art)
                items == req[r].items
                out == {i \in 1..Len(sims) :
                            \A p \in 1..Len(items) : req[r].idxs[p] # i}
            IN  /\ \A p, q \in 1..Len(items) :
                    p < q => ~ScoreLess(items[p].score, items[q].score)
                /\ \A p \in 1..Len(items) :
                    /\ items[p].score = sims[req[r].idxs[p]]
                    /\ \A i \in out : ~ScoreLess(items[p].score, sims[i])

\* C7 witness: one document is returned and a document of lower score is
\* left out.
C7_Witness ==
    \E r \in Requests :
        /\ Answered(r)
        /\ Len(req[r].items) = 1
        /\ \E i \in 1..Len(model.art.matrix) :
            ScoreLess(Sims(TextOf(req[r].payload), model.art)[i],
                      req[r].items[1].score)

\* C8: a request whose text is empty or all whitespace, with any integer
\* top_k or none, is answered with the empty list and no error, whatever the
\* file and the cache hold.
C8_BlankTextEmpty ==
    \A r \in Requests :
        (/\ Done(r)
         /\ Blank(req[r].payload.text.val)
         /\ req[r].payload.top_k.kind # "text")
            => req[r].status = "ok" /\ req[r].items = <<>>

\* C8 witness: a whitespace-only text with a negative top_k got the empty
\* list while the file is absent.
C8_Witness ==
    \E r \in Requests :
        /\ Ok(r)
        /\ req[r].payload.text.val = <<SP>>
        /\ req[r].payload.top_k.kind = "int"
        /\ req[r].payload.top_k.val < 0
        /\ file = Absent
        /\ req[r].items = <<>>

\* C9: once the cache is filled no step changes it, whatever the builder
\* writes, and every answer is computed from the cached artifact.
C9_CacheNeverChanges ==
    /\ [][model # None => model' = model]_vars
    /\ [](\A r \in Requests :
            Answered(r) =>
                req[r].items =
                    recommend_by_text(TextOf(req[r].payload),
                                      TopKOf(req[r].payload), model.art).items)

\* C9 witness: the builder has rewritten the file with another artifact, and
\* a request was answered from the cached one with a list the new artifact
\* would not give.
C9_Witness ==
    \E r \in Requests :
        /\ Answered(r)
        /\ req[r].reused
        /\ file.kind = "ok"
        /\ file # model
        /\ builder.pc = "idle"
        /\ req[r].items #
            recommend_by_text(TextOf(req[r].payload),
                              TopKOf(req[r].payload), file.art).items

\* C10: once a load has failed the lifecycle stays LOAD_FAILED: no later
\* request attempts the load again and the state never becomes LOADED.
C10_LoadFailedIsTerminal ==
    [][Lifecycle = "LOAD_FAILED" => Lifecycle' = "LOAD_FAILED"]_vars

\* C11: at every point during and after a run of the builder, a crash in the
\* middle of the write included, MODEL_PATH holds a complete artifact, the
\* prior one or the new one: no step leaves a truncated or partial file where
\* there was none, so a load that interleaves with a build reads a complete
\* version.
C11_ArtifactNeverPartial ==
    [][file.kind # "corrupt" => file'.kind # "corrupt"]_vars

\* C12: with zero rows in the catalog a run of the builder reports the
\* condition and returns: no step creates, truncates or modifies the file,
\* and the run ends with the report "no books".
C12_EmptyCatalogWritesNothing ==
    [][catalog = <<>> =>
        /\ file' = file
        /\ builder' \in {builder, Stopped("no_books")}]_vars

\* C12 witness: the builder has run over an empty catalog and reported it,
\* and the artifact of an earlier catalog is in place.
C12_Witness ==
    /\ catalog = <<>>
    /\ builder = Stopped("no_books")
    /\ file.kind = "ok"

\* C13: the artifact a run has saved has as many identifiers, titles and
\* matrix rows as the catalog has rows, and index i of the three is row i of
\* the catalog: its id, its title, the tf-idf row of its text.
C13_ArtifactAligned ==
    builder = Stopped("saved") =>
        /\ file.kind = "ok"
        /\ Len(file.art.book_ids) = Len(catalog)
        /\ Len(file.art.titles) = Len(catalog)
        /\ Len(file.art.matrix) = Len(catalog)
        /\ \A i \in 1..Len(catalog) :
            /\ file.art.book_ids[i] = catalog[i].id
            /\ file.art.titles[i] = catalog[i].title
            /\ file.art.matrix[i] =
                    TfidfRow(DocText(catalog[i]), file.art.vocab, file.art.idf)

\* C13 witness: a run has saved the artifact of a catalog of two books with
\* different titles, over a file that held something else.
C13_Witness ==
    /\ builder = Stopped("saved")
    /\ Len(catalog) >= 2
    /\ catalog[1].title # catalog[2].title
    /\ file.kind = "ok"

\* Every word of the text is outside the fitted vocabulary of the artifact.
OutOfVocabulary(text, art) ==
    \A i \in 1..Len(Tokens(text)) : Tokens(text)[i] \notin art.vocab

\* C15: with a loaded artifact, a request whose text is not blank and whose
\* words are all outside the fitted vocabulary (its top_k being a number or
\* absent) does not raise: it gets a list, empty or with every score 0.
C15_OutOfVocabularyScoresZero ==
    \A r \in Requests :
        (/\ Done(r)
         /\ model # None
         /\ ~TopKRaises(req[r].payload)
         /\ TextOf(req[r].payload) # <<>>
         /\ OutOfVocabulary(TextOf(req[r].payload), model.art))
        => /\ Ok(r)
           /\ \A p \in 1..Len(req[r].items) : req[r].items[p].score = Zero

\* C15 witness: a word that the fitted vocabulary (not empty) does not hold
\* has been asked for and items have come back.
C15_Witness ==
    /\ Ok(1)
    /\ model # None
    /\ Tokens(TextOf(req[1].payload)) # <<>>
    /\ OutOfVocabulary(TextOf(req[1].payload), model.art)
    /\ req[1].items # <<>>

\* C19: for top_k = k >= 1 and a loaded artifact of n documents, a request
\* with a text that is not blank gets exactly min(k, n) items: documents of
\* similarity 0 are not left out.
C19_ExactlyMinKN ==
    \A r \in Requests :
        (Answered(r) /\ TopKOf(req[r].payload) >= 1)
        => Len(req[r].items) =
               Min(TopKOf(req[r].payload), Len(model.art.book_ids))

\* C19 witness: top_k = 2 was asked of two documents or more and two items
\* have come back, one of them with score 0 and one with a positive score.
C19_Witness ==
    /\ Answered(1)
    /\ req[1].payload.top_k = [kind |-> "int", val |-> 2]
    /\ Len(req[1].items) = 2
    /\ \E p, q \in 1..2 :
        /\ req[1].items[p].score = Zero
        /\ req[1].items[q].score # Zero

\* C20: every item of a result is the identifier, the title and the score
\* of one index of the corpus, as the builder stored them, and no index of
\* the corpus gives two items of one result.
C20_ItemsOfOneIndex ==
    \A r \in Requests :
        Answered(r) =>
            LET art == model.art
                sims == Sims(TextOf(req[r].payload), art)
                items == req[r].items
                IndexOf(p) ==
                    {i \in 1..Len(art.book_ids) :
                        /\ items[p].book_id = art.book_ids[i]
                        /\ items[p].title = art.titles[i]
                        /\ items[p].score = sims[i]}
            IN  /\ \A p \in 1..Len(items) : IndexOf(p) # {}
                /\ \A p, q \in 1..Len(items) :
                    p # q => IndexOf(p) \cap IndexOf(q) = {}

\* C20 witness: a result of two items whose titles differ and whose first
\* item is not the first document of the corpus.
C20_Witness ==
    /\ Answered(1)
    /\ Len(req[1].items) = 2
    /\ req[1].items[1].title # req[1].items[2].title
    /\ req[1].items[1].book_id # model.art.book_ids[1]

\* C16: for every entry E of the corpus, a request with the text the builder
\* indexed for E and top_k >= 1 gets a list whose first item is E or has the
\* score of E, and that score is the maximum over the whole corpus.
C16_SelfSimilarity ==
    \A r \in Requests : \A e \in 1..Len(model.art.book_ids) :
        (/\ Answered(r)
         /\ TopKOf(req[r].payload) >= 1
         /\ TextOf(req[r].payload) = DocText(catalog[e]))
        => LET sims == Sims(TextOf(req[r].payload), model.art)
               first == req[r].items[1]
           IN  /\ req[r].items # <<>>
               /\ \/ first.book_id = model.art.book_ids[e]
                  \/ first.score = sims[e]
               /\ \A j \in 1..Len(sims) : ~ScoreLess(sims[e], sims[j])

\* C16 witness: the text of the second of two books was asked with top_k = 1,
\* the first book has a smaller score, and the second book is the answer.
C16_Witness ==
    /\ Answered(1)
    /\ req[1].payload.top_k = [kind |-> "int", val |-> 1]
    /\ Len(model.art.book_ids) >= 2
    /\ TextOf(req[1].payload) = DocText(catalog[2])
    /\ LET sims == Sims(TextOf(req[1].payload), model.art)
       IN  ScoreLess(sims[1], sims[2])
    /\ req[1].items[1].book_id = model.art.book_ids[2]

\* C14: a request with the text and the top_k of an earlier request gets the
\* same items in the same order with the same scores, whatever requests
\* were answered in between.
C14_SameAnswerAgain ==
    \A r \in Requests :
        (Ok(r) /\ seen.seen /\ req[r].payload = seen.payload)
        => req[r].items = seen.items

\* C14 witness: a body is answered a second time, after the builder has
\* saved a file, and its list begins with two documents of the same score.
C14_Witness ==
    /\ Ok(1)
    /\ seen.seen
    /\ req[1].payload = seen.payload
    /\ builder = Stopped("saved")
    /\ Len(req[1].items) >= 2
    /\ req[1].items[1].score = req[1].items[2].score

\* The table holds a row of this email.
HasEmail(table, email) == \E i \in 1..Len(table) : table[i].email = email

\* C17: a register request whose email belonged to an adherent is answered
\* 400 'Email déjà utilisé' and the table is as it was; one whose email was
\* unused is answered 201 and the table has exactly one row more, of that
\* email; and no two rows of the table ever have the same email.
C17_RegisterUniqueEmail ==
    /\ \A i, j \in 1..Len(adherents) :
        adherents[i].email = adherents[j].email => i = j
    /\ \A r \in Requests :
        (areq[r].op = "register" /\ areq[r].pc = "done") =>
            IF HasEmail(areq[r].before, areq[r].email)
            THEN /\ areq[r].status = 400
                 /\ areq[r].detail = "Email déjà utilisé"
                 /\ adherents = areq[r].before
            ELSE /\ areq[r].status = 201
                 /\ Len(adherents) = Len(areq[r].before) + 1
                 /\ SubSeq(adherents, 1, Len(areq[r].before)) = areq[r].before
                 /\ adherents[Len(adherents)].email = areq[r].email

\* C17 witness: a register request has got the 400 for the email of the
\* second adherent, whom an earlier register request had added, and the
\* table holds the two adherents it held before.
C17_Witness ==
    /\ areq[1].op = "register"
    /\ areq[1].status = 400
    /\ Len(adherents) = 2
    /\ adherents[2].email = areq[1].email
    /\ adherents = areq[1].before

\* C18: GET /api/auth/me gives an adherent only for a token that verifies
\* and whose "sub" is not empty and is the id of an existing adherent with
\* is_active true, and that adherent is the one it gives; every other token
\* is answered 401 'Token invalide' and gives no adherent.
C18_OnlyValidTokenElse401 ==
    \A r \in Requests :
        (areq[r].op = "me" /\ areq[r].pc = "done") =>
            LET token == areq[r].token
                good ==
                    /\ token.sig = "ok"
                    /\ token.sub.kind = "num"
                    /\ token.sub.val \in 1..Len(adherents)
                    /\ adherents[token.sub.val].is_active
            IN  IF good
                THEN areq[r].status = 200 /\ areq[r].user = token.sub.val
                ELSE /\ areq[r].status = 401
                     /\ areq[r].detail = "Token invalide"
                     /\ areq[r].user = 0

\* The request q is in the handler with a text that is empty or all
\* whitespace (and a top_k that is a number or absent).
BlankRequest(q) ==
    /\ q.pc \notin {"idle", "pending"}
    /\ Blank(q.payload.text.val)
    /\ q.payload.top_k.kind # "text"

\* C25: a request whose text is empty or all whitespace never comes to the
\* load: no step of it changes the cache, the count of loads or the lifecycle
\* state, it never stands in _load or in the query, and it ends with the empty
\* list, whether the file is there or not.
C25_BlankTextNoLoad ==
    [][\A r \in Requests :
        (/\ req'[r] # req[r]
         /\ BlankRequest(req[r]) \/ BlankRequest(req'[r]))
        => /\ model' = model
           /\ nLoads' = nLoads
           /\ loadFailed' = loadFailed
           /\ Lifecycle' = Lifecycle
           /\ req'[r].pc \in {"done", "idle"}
           /\ req'[r].pc = "done" =>
                (req'[r].status = "ok" /\ req'[r].items = <<>>)]_vars

\* C25 witness: a whitespace-only text has got the empty list while the file
\* is missing, and the server is as unloaded as it started.
C25_Witness ==
    /\ Ok(1)
    /\ req[1].payload.text.val = <<SP>>
    /\ req[1].items = <<>>
    /\ file = Absent
    /\ model = None
    /\ nLoads = 0
    /\ Lifecycle = "UNLOADED"

\* C24: when register requests for an email that no adherent had when they
\* arrived run together, at most one adherent of that email is stored, and a
\* request that does not create the adherent is answered 400 'Email déjà
\* utilisé'.
C24_RaceLoserGets400 ==
    /\ \A i, j \in 1..Len(adherents) :
        adherents[i].email = adherents[j].email => i = j
    /\ \A r \in Requests :
        (/\ areq[r].op = "register"
         /\ areq[r].pc = "done"
         /\ ~HasEmail(areq[r].before, areq[r].email)
         /\ areq[r].status # 201)
        => /\ areq[r].status = 400
           /\ areq[r].detail = "Email déjà utilisé"

\* C22: the generator yields the page indices 1, 2, 3, ... in this order; with
\* max_pages = N > 0 it yields at most N pages and stops after the N-th; a
\* page that has not come after 3 tries is not yielded and ends the
\* generator, with no further try; and the generator stops after the page
\* that has no next link.
C22_PagesInOrderAndStops ==
    LET yielded == scraper.yielded
        resumed == scraper.pc \in {"load", "loaded", "stopped"}
    IN  /\ \A k \in 1..Len(yielded) : yielded[k] = k
        /\ scraper.max_pages > 0 =>
            /\ Len(yielded) <= scraper.max_pages
            /\ (Len(yielded) = scraper.max_pages /\ resumed)
                    => scraper.pc = "stopped"
        /\ scraper.pc = "load" => scraper.attempt \in 1..Tries
        /\ scraper.why = "load_failed" =>
            /\ scraper.pc = "stopped"
            /\ scraper.attempt = Tries
            /\ Len(yielded) = scraper.page_idx - 1
        /\ scraper.pc \in {"load", "loaded", "yielded"} =>
                scraper.page_idx <= scraper.site
        /\ (Len(yielded) = scraper.site /\ resumed) => scraper.pc = "stopped"

\* C22 witness: with max_pages = 0 the pages 1 and 2 were yielded and the
\* third page did not come in three tries: the generator has stopped without
\* yielding it.
C22_Witness ==
    /\ scraper.pc = "stopped"
    /\ scraper.why = "load_failed"
    /\ scraper.max_pages = 0
    /\ scraper.page_idx = 3
    /\ scraper.yielded = <<1, 2>>

\* No two books of the table have the same title and author.
NoTwoOfOneKey(table) ==
    \A i, j \in 1..Len(table) : SameKey(table[i], table[j]) => i = j

\* C21: for each input row, upsert_books adds a book when the session holds
\* none of its title and author; when it holds one, it updates that book if
\* update_existing is true or the new description is not empty while the
\* stored one is, and else leaves it as it is; and the count goes up by one
\* with each insert and each update, and only then.
C21_UpsertPerRow ==
    [][(upsert.pc = "rows" /\ upsert'.i = upsert.i + 1) =>
        LET r == upsert.clean_rows[upsert.i]
            books == upsert.books
            same == {p \in 1..Len(books) : SameKey(books[p], r)}
        IN  IF same = {}
            THEN /\ upsert'.books = Append(books, NewLivre(r, Len(books) + 1))
                 /\ upsert'.changed = upsert.changed + 1
            ELSE \E p \in same :
                    IF \/ upsert.update_existing
                       \/ /\ strip(r.description) # <<>>
                          /\ strip(books[p].description) = <<>>
                    THEN /\ upsert'.books =
                                [books EXCEPT ![p] = Updated(books[p], r)]
                         /\ upsert'.changed = upsert.changed + 1
                    ELSE /\ upsert'.books = books
                         /\ upsert'.changed = upsert.changed]_vars

\* C23: when the table had no two books of one title and author before
\* upsert_books ran, it has none after the commit, whatever the input list.
C23_NoDuplicateBooks ==
    (upsert.pc = "done" /\ NoTwoOfOneKey(upsert.before))
        => NoTwoOfOneKey(catalog)

====
